---- MODULE Spec2Model ----
(***************************************************************************)
(* Model of the memory-backed SATA target (sata_target.c / sata_target.h): *)
(* construction with its backing allocation, the extent rbtree, the        *)
(* per-tag scatter/gather mapping, the identify mapping and teardown.      *)
(*                                                                         *)
(* A kernel BUG()/BUG_ON() or a NULL dereference stops the model in        *)
(* pc = "halt" with `fault` naming it.  Calls that hand a collaborator     *)
(* (page allocator, DMA layer) something the target never acquired do not  *)
(* stop the code; they are recorded in `bad`.                              *)
(***************************************************************************)
EXTENDS Integers, Sequences, FiniteSets, TLC

(* ------------------------------------------------------------------ *)
(* Program constants                                                    *)
(* ------------------------------------------------------------------ *)
NULL == 0
PAGE_SHIFT == 12
PAGE_SIZE == 2 ^ PAGE_SHIFT
\* #define PAGE_SECTORS (PAGE_SIZE >> 9)
PAGE_SECTORS == PAGE_SIZE \div 512
ST_DATA_LEN == 512
RESERVE_MB == 256
\* alloc_order = 5 at the start of alloc_backing
START_ORDER == 5
\* enum dma_data_direction, and the "no mapping" value unmap stores
DMA_BIDIRECTIONAL == 0
DMA_TO_DEVICE == 1
DMA_FROM_DEVICE == 2
DMA_UNSET == -1
EAGAIN == 11
\* unsigned short sp.offset / sp.length
U16 == 65536
\* the page that holds the coherent identify buffer st->data
DATA_PAGE == -1

(* ------------------------------------------------------------------ *)
(* Bounds of the model                                                  *)
(* ------------------------------------------------------------------ *)
\* pages of head room above the reserve on the large machine
MaxHeadroom == 3
MaxDepth == 1
MaxLifeDepth == 2
MaxSegments == 2
MaxNrSectors == 2
MaxIoPages == 2

MaxReqPages == MaxHeadroom + 1

\* reserve_pages = (RESERVE_MB * 1024UL * 1024UL) >> PAGE_SHIFT
reserve_pages == (RESERVE_MB * 1024 * 1024) \div PAGE_SIZE

\* si.totalram as si_meminfo() reports it, counted in pages (mem_unit is
\* PAGE_SIZE): a machine with MaxHeadroom pages above the reserve, and the
\* smallest machine on which size_ok sees that head room.
SmallRam == reserve_pages + MaxHeadroom
LargeRam == (reserve_pages + MaxHeadroom) * PAGE_SIZE
RamChoices == {SmallRam, LargeRam}

\* one page more than the machine has above the reserve
OverSectors(ram) == (ram - reserve_pages + 1) * PAGE_SECTORS

\* sector counts asked of sata_target_init
InitSectors(ram) ==
    {p * PAGE_SIZE : p \in 0..MaxReqPages}
        \cup {2 * PAGE_SECTORS, OverSectors(ram)}

\* first sector asked of sata_target_map_sg: the last sector of the first page
MapSectors == {PAGE_SECTORS - 1}
MapDirs == {DMA_TO_DEVICE}

VARIABLES
    pc,         \* where the caller is: start, alloc, ready, destroy, failed, destroyed, halt
    totalram,   \* si.totalram of the machine
    st,         \* struct sata_target (st.alloc = FALSE: not allocated)
    rb_root,    \* st->rb_root: the extent tree
    tsm,        \* st->tsm[]: per-tag struct target_sg_map
    ab,         \* locals of sata_target_init / alloc_backing
    pg,         \* page allocator: blocks handed out, reserved page flags
    live,       \* tags with a successful map that no unmap has followed yet
    owner,      \* who runs sata_target_destroy: "init" or "caller"
    fault,      \* BUG()/oops that stopped the code, or "none"
    bad,        \* misuse of a collaborator that did not stop the code
    last,       \* the last call on the ready target and what it returned
    data,       \* st->data: the identify buffer, as 16-bit little-endian words
    xlate       \* a struct sector_page kept over a stream of translations

vars == <<pc, totalram, st, rb_root, tsm, ab, pg, live, owner, fault, bad, last,
          data, xlate>>

(* ------------------------------------------------------------------ *)
(* Extent tree                                                          *)
(* ------------------------------------------------------------------ *)
RB_ROOT == [rb_node |-> NULL, nodes |-> <<>>]

\* a page_extent: pages is the first page frame of the block
PageExtent(pages, sector, sectors) ==
    [pages |-> pages, sector |-> sector, sectors |-> sectors,
     rb_left |-> NULL, rb_right |-> NULL]

RECURSIVE rb_find_from(_, _, _)
rb_find_from(nodes, node, offset) ==
    IF node = NULL THEN NULL
    ELSE LET pe == nodes[node] IN
         IF offset < pe.sector
         THEN rb_find_from(nodes, pe.rb_left, offset)
         ELSE IF offset >= pe.sector + pe.sectors
         THEN rb_find_from(nodes, pe.rb_right, offset)
         ELSE node

\* the node whose extent holds `offset`, or NULL
pe_rb_find(root, offset) == rb_find_from(root.nodes, root.rb_node, offset)

\* the descent of pe_rb_insert: where the new node is linked, or BUG()
RECURSIVE rb_link_pos(_, _, _, _, _)
rb_link_pos(nodes, p, parent, side, sector) ==
    IF p = NULL THEN [bug |-> FALSE, parent |-> parent, side |-> side]
    ELSE LET pe == nodes[p] IN
         IF sector < pe.sector
         THEN rb_link_pos(nodes, pe.rb_left, p, "rb_left", sector)
         ELSE IF sector >= pe.sector + pe.sectors
         THEN rb_link_pos(nodes, pe.rb_right, p, "rb_right", sector)
         ELSE [bug |-> TRUE, parent |-> p, side |-> side]

\* the same descent without the overlap check
RECURSIVE rb_link_pos_nocheck(_, _, _, _, _)
rb_link_pos_nocheck(nodes, p, parent, side, sector) ==
    IF p = NULL THEN [bug |-> FALSE, parent |-> parent, side |-> side]
    ELSE LET pe == nodes[p] IN
         IF sector < pe.sector
         THEN rb_link_pos_nocheck(nodes, pe.rb_left, p, "rb_left", sector)
         ELSE rb_link_pos_nocheck(nodes, pe.rb_right, p, "rb_right", sector)

\* rb_link_node: hang node `id` below `pos.parent`
rb_link_node(root, id, pe, pos) ==
    LET added == [n \in (DOMAIN root.nodes) \cup {id} |->
                    IF n = id THEN pe ELSE root.nodes[n]]
    IN IF pos.parent = NULL
       THEN [rb_node |-> id, nodes |-> added]
       ELSE [rb_node |-> root.rb_node,
             nodes |-> [added EXCEPT ![pos.parent][pos.side] = id]]

pe_rb_insert_nocheck(root, id, pe) ==
    [bug |-> FALSE,
     root |-> rb_link_node(root, id, pe,
                  rb_link_pos_nocheck(root.nodes, root.rb_node, NULL, "rb_left", pe.sector))]

\* pe_rb_insert: [bug |-> the BUG() fired, root |-> the tree afterwards].
\* rb_insert_color only rebalances; it keeps the order of the nodes.
pe_rb_insert(root, id, pe) ==
    LET pos == rb_link_pos(root.nodes, root.rb_node, NULL, "rb_left", pe.sector)
    IN IF pos.bug THEN [bug |-> TRUE, root |-> root]
       ELSE [bug |-> FALSE, root |-> rb_link_node(root, id, pe, pos)]

RECURSIVE rb_first_from(_, _)
rb_first_from(nodes, n) ==
    IF nodes[n].rb_left = NULL THEN n ELSE rb_first_from(nodes, nodes[n].rb_left)

\* rb_first: the leftmost node, or NULL
rb_first(root) ==
    IF root.rb_node = NULL THEN NULL ELSE rb_first_from(root.nodes, root.rb_node)

\* rb_erase of the leftmost node n: its right subtree takes its place
rb_erase(root, n) ==
    LET rest == (DOMAIN root.nodes) \ {n}
        up   == root.nodes[n].rb_right
    IN [rb_node |-> IF root.rb_node = n THEN up ELSE root.rb_node,
        nodes |-> [m \in rest |->
                     IF root.nodes[m].rb_left = n
                     THEN [root.nodes[m] EXCEPT !.rb_left = up]
                     ELSE root.nodes[m]]]

Extents == {rb_root.nodes[n] : n \in DOMAIN rb_root.nodes}

(* ------------------------------------------------------------------ *)
(* Feasibility                                                          *)
(* ------------------------------------------------------------------ *)
\* size_ok without the sys_pages < reserve_pages test: the unsigned
\* difference wraps to a huge value and every request fits
size_ok_nowrapcheck(nr_pages, ram) ==
    LET sys_pages == ram \div PAGE_SIZE
    IN IF sys_pages < reserve_pages THEN TRUE
       ELSE nr_pages <= sys_pages - reserve_pages

size_ok(nr_pages, ram) ==
    LET sys_pages == ram \div PAGE_SIZE
    IN IF sys_pages < reserve_pages THEN FALSE
       ELSE IF nr_pages > sys_pages - reserve_pages THEN FALSE
       ELSE TRUE

\* nr_pages = (sectors + PAGE_SECTORS - 1) >> PAGE_SHIFT
init_nr_pages(sectors) == (sectors + PAGE_SECTORS - 1) \div PAGE_SIZE

(* ------------------------------------------------------------------ *)
(* Initial state: nothing constructed                                   *)
(* ------------------------------------------------------------------ *)
NoTarget ==
    [alloc |-> FALSE, sectors |-> 0, depth |-> 0, max_segments |-> 0,
     wce |-> 0, tsm |-> FALSE, data |-> FALSE, data_len |-> 0]

NoCall ==
    [op |-> "none", tag |-> 0, sector |-> 0, nr |-> 0, ddir |-> 0, ret |-> 0,
     short |-> FALSE, dma |-> "none"]

NoLocals == [sectors |-> 0, nr_pages |-> 0, left |-> 0, alloc_order |-> 0, offset |-> 0]

SgZero == [page |-> NULL, offset |-> 0, length |-> 0]

\* the words of the identify buffer that target_fill_identify stores into;
\* every other word of the 512 bytes stays 0 after its memset
IdentWords ==
    {1, 3, 6} \cup (10..19) \cup (23..46) \cup {49, 50, 53, 60, 61, 75, 76}
        \cup (80..88) \cup (100..103)

\* the buffer as dma_alloc_coherent hands it out
NoData == [w \in IdentWords |-> 0]

\* memset(&sp, 0, sizeof(sp))
NoSectorPage == [last_extent |-> NULL, page |-> NULL, offset |-> 0, length |-> 0]

Init ==
    /\ pc = "start"
    /\ totalram \in RamChoices
    /\ st = NoTarget
    /\ rb_root = RB_ROOT
    /\ tsm = <<>>
    /\ ab = NoLocals
    /\ pg = [next |-> 1, blocks |-> {}, reserved |-> {}]
    /\ live = {}
    /\ owner = "none"
    /\ fault = "none"
    /\ bad = {}
    /\ last = NoCall
    /\ data = NoData
    /\ xlate = NoSectorPage

(* ------------------------------------------------------------------ *)
(* sata_target_init, up to the call of alloc_backing                    *)
(* ------------------------------------------------------------------ *)
\* the slot array after kzalloc and `nsgt` successful sg_alloc_table calls
\* (a failed sg_alloc_table frees what it had built and leaves no table)
FreshSlots(depth, segments, nsgt) ==
    [i \in 0..(depth - 1) |->
        [sgt |-> i < nsgt,
         sgl |-> IF i < nsgt THEN [k \in 1..segments |-> SgZero] ELSE <<>>,
         nents |-> 0,
         dma_dir |-> 0]]

sata_target_init(sectors, depth, segments, got_st, got_tsm, got_data, nsgt) ==
    /\ pc = "start"
    /\ LET nr_pages == init_nr_pages(sectors) IN
       IF ~size_ok(nr_pages, totalram) \/ ~got_st
       THEN \* return NULL before anything is held
            /\ got_tsm /\ got_data /\ nsgt = depth
            /\ pc' = "failed"
            /\ owner' = "init"
            /\ ab' = [NoLocals EXCEPT !.sectors = sectors, !.nr_pages = nr_pages]
            /\ UNCHANGED <<st, tsm>>
       ELSE /\ got_tsm \/ got_data
            /\ (got_tsm /\ got_data) \/ nsgt = depth
            /\ st' = [alloc |-> TRUE, sectors |-> 0, depth |-> depth,
                      max_segments |-> segments, wce |-> 1,
                      tsm |-> got_tsm,
                      data |-> got_tsm /\ got_data,
                      data_len |-> IF got_tsm /\ got_data THEN ST_DATA_LEN ELSE 0]
            /\ tsm' = IF ~got_tsm THEN <<>>
                      ELSE FreshSlots(depth, segments, IF got_data THEN nsgt ELSE 0)
            /\ ab' = [sectors |-> sectors, nr_pages |-> nr_pages, left |-> nr_pages,
                      alloc_order |-> START_ORDER, offset |-> 0]
            /\ IF got_tsm /\ got_data /\ nsgt = depth
               THEN pc' = "alloc" /\ owner' = owner
               ELSE pc' = "destroy" /\ owner' = "init"
    /\ UNCHANGED <<totalram, rb_root, pg, live, fault, bad, last, data, xlate>>

(* ------------------------------------------------------------------ *)
(* Page allocator                                                       *)
(* ------------------------------------------------------------------ *)
PagesOf(base, n) == base..(base + n - 1)

\* alloc_pages(gfp_mask, order) succeeding: a fresh block of 2^order pages
alloc_pages(p, order) ==
    [p EXCEPT !.next = p.next + 2 ^ order,
              !.blocks = p.blocks \cup {[base |-> p.next, order |-> order]}]

\* __free_pages(pages, order): the block at `base` goes back to the allocator
free_pages(p, base, order) ==
    [p EXCEPT !.blocks = {b \in p.blocks : b.base # base}]

\* __free_pages was handed a block the allocator gave out with that order
FreeMatches(p, base, order) == [base |-> base, order |-> order] \in p.blocks

(* ------------------------------------------------------------------ *)
(* alloc_backing                                                        *)
(* ------------------------------------------------------------------ *)
\* the order left as it is, whatever is left to allocate
scale_order_none(order, left) == order

\* while ((1 << alloc_order) > left) alloc_order--;
RECURSIVE scale_order(_, _)
scale_order(order, left) ==
    IF 2 ^ order > left THEN scale_order(order - 1, left) ELSE order

\* what alloc_backing adds to the running offset after a block
offset_advance(order) == PAGE_SECTORS

\* add_pages_to_st after its kzalloc succeeded: mark the pages reserved,
\* fill the extent, insert it
add_pages_to_st(root, p, pages, nr_pages, offset) ==
    LET pe  == PageExtent(pages, offset, nr_pages * PAGE_SECTORS)
        id  == Cardinality(DOMAIN root.nodes) + 1
        ins == pe_rb_insert(root, id, pe)
    IN [bug |-> ins.bug,
        root |-> ins.root,
        pg |-> [p EXCEPT !.reserved = p.reserved \cup PagesOf(pages, nr_pages)]]

\* one round of the while (left) loop.  `got` is the order at which
\* alloc_pages succeeded after failing at every higher order tried, -1 when
\* it failed down to order 0; got_pe is add_pages_to_st's kzalloc.
alloc_backing_step(got, got_pe) ==
    /\ pc = "alloc"
    /\ ab.left > 0
    /\ got \in -1..scale_order(ab.alloc_order, ab.left)
    /\ IF got = -1
       THEN \* OOM: return 1, sata_target_init goes to err
            /\ got_pe
            /\ pc' = "destroy"
            /\ owner' = "init"
            /\ ab' = [ab EXCEPT !.alloc_order = 0]
            /\ UNCHANGED <<rb_root, pg, fault>>
       ELSE IF ~got_pe
       THEN \* add_pages_to_st: -ENOMEM, the block is freed again
            /\ pc' = "destroy"
            /\ owner' = "init"
            /\ ab' = [ab EXCEPT !.alloc_order = got]
            /\ UNCHANGED <<rb_root, pg, fault>>
       ELSE LET added == add_pages_to_st(rb_root, alloc_pages(pg, got), pg.next,
                                         2 ^ got, ab.offset)
            IN /\ pg' = added.pg
               /\ rb_root' = added.root
               /\ IF added.bug
                  THEN /\ fault' = "BUG_extent_overlap"
                       /\ pc' = "halt"
                       /\ ab' = [ab EXCEPT !.alloc_order = got]
                  ELSE /\ fault' = fault
                       /\ pc' = pc
                       /\ ab' = [ab EXCEPT !.alloc_order = got,
                                           !.offset = ab.offset + offset_advance(got),
                                           !.left = ab.left - 2 ^ got]
               /\ owner' = owner
    /\ UNCHANGED <<totalram, st, tsm, live, bad, last, data, xlate>>

\* left = 0: alloc_backing returns 0, sata_target_init stores the sector
\* count and returns the target
alloc_backing_done ==
    /\ pc = "alloc"
    /\ ab.left = 0
    /\ st' = [st EXCEPT !.sectors = ab.sectors]
    /\ pc' = "ready"
    /\ UNCHANGED <<totalram, rb_root, tsm, ab, pg, live, owner, fault, bad, last, data, xlate>>

(* ------------------------------------------------------------------ *)
(* sata_target_destroy                                                  *)
(* ------------------------------------------------------------------ *)
\* the caller destroys a constructed target
sata_target_destroy ==
    /\ pc = "ready"
    /\ pc' = "destroy"
    /\ owner' = "caller"
    /\ UNCHANGED <<totalram, st, rb_root, tsm, ab, pg, live, fault, bad, last, data, xlate>>

\* order = pe->sectors >> (PAGE_SHIFT - 9)
prune_order(pe) == pe.sectors \div PAGE_SECTORS

\* one round of prune_pages' loop: erase the first extent, clear the
\* reserved flag of `order` pages, free the block with that order
prune_pages ==
    /\ pc = "destroy"
    /\ rb_first(rb_root) # NULL
    /\ LET n     == rb_first(rb_root)
           pe    == rb_root.nodes[n]
           order == prune_order(pe)
           p1    == [pg EXCEPT !.reserved = pg.reserved \ PagesOf(pe.pages, order)]
       IN /\ rb_root' = rb_erase(rb_root, n)
          /\ pg' = free_pages(p1, pe.pages, order)
          /\ bad' = IF FreeMatches(pg, pe.pages, order) THEN bad
                    ELSE bad \cup {"free_pages_wrong_order"}
    /\ UNCHANGED <<pc, totalram, st, tsm, ab, live, owner, fault, last, data, xlate>>

\* the rest of sata_target_destroy once the tree is empty
destroy_finish ==
    /\ pc = "destroy"
    /\ rb_first(rb_root) = NULL
    /\ IF st.depth > 0 /\ ~st.tsm
       THEN \* &st->tsm[0] with st->tsm == NULL: sg_free_table reads through it
            /\ fault' = "oops_null_tsm"
            /\ pc' = "halt"
            /\ UNCHANGED <<st, tsm, bad, data>>
       ELSE /\ tsm' = <<>>
            /\ data' = NoData
            /\ st' = NoTarget
            /\ bad' = IF st.data THEN bad
                      ELSE bad \cup {"dma_free_coherent_null"}
            /\ fault' = fault
            /\ pc' = IF owner = "init" THEN "failed" ELSE "destroyed"
    /\ UNCHANGED <<totalram, rb_root, ab, pg, live, owner, last, xlate>>

(* ------------------------------------------------------------------ *)
(* Sector translation                                                   *)
(* ------------------------------------------------------------------ *)
sector_in_extent(pe, sector) ==
    (sector >= pe.sector) /\ (sector < (pe.sector + pe.sectors))

\* sector_to_page that uses a cached extent without looking whether it
\* holds the sector
sector_to_page_nocheck(root, last_extent, sector) ==
    LET hit == last_extent # NULL
        id  == IF hit THEN last_extent ELSE pe_rb_find(root, sector)
    IN IF id = NULL
       THEN [bug |-> TRUE, last_extent |-> last_extent,
             page |-> NULL, offset |-> 0, length |-> 0]
       ELSE LET pe       == root.nodes[id]
                off      == (sector - pe.sector) * 512
                pe_off   == off \div PAGE_SIZE
                page_off == off % PAGE_SIZE
            IN [bug |-> FALSE, last_extent |-> id,
                page |-> pe.pages + pe_off,
                offset |-> page_off % U16,
                length |-> (PAGE_SIZE - page_off) % U16]

\* sector_to_page that takes the first page of the extent for every sector
sector_to_page_firstpage(root, last_extent, sector) ==
    LET hit == last_extent # NULL /\ sector_in_extent(root.nodes[last_extent], sector)
        id  == IF hit THEN last_extent ELSE pe_rb_find(root, sector)
    IN IF id = NULL
       THEN [bug |-> TRUE, last_extent |-> last_extent,
             page |-> NULL, offset |-> 0, length |-> 0]
       ELSE LET pe       == root.nodes[id]
                off      == (sector - pe.sector) * 512
                page_off == off % PAGE_SIZE
            IN [bug |-> FALSE, last_extent |-> id,
                page |-> pe.pages,
                offset |-> page_off % U16,
                length |-> (PAGE_SIZE - page_off) % U16]

\* sector_to_page: [bug |-> BUG_ON(!pe) fired, last_extent, page, offset, length]
sector_to_page(root, last_extent, sector) ==
    LET hit == last_extent # NULL /\ sector_in_extent(root.nodes[last_extent], sector)
        id  == IF hit THEN last_extent ELSE pe_rb_find(root, sector)
    IN IF id = NULL
       THEN [bug |-> TRUE, last_extent |-> last_extent,
             page |-> NULL, offset |-> 0, length |-> 0]
       ELSE LET pe       == root.nodes[id]
                off      == (sector - pe.sector) * 512
                pe_off   == off \div PAGE_SIZE
                page_off == off % PAGE_SIZE
            IN [bug |-> FALSE, last_extent |-> id,
                page |-> pe.pages + pe_off,
                offset |-> page_off % U16,
                length |-> (PAGE_SIZE - page_off) % U16]

\* one call of sector_to_page(st, &sp, sector) on the translator state
\* that the stream keeps between calls
sector_to_page_call(sector) ==
    /\ pc = "ready"
    /\ LET r == sector_to_page(rb_root, xlate.last_extent, sector)
       IN IF r.bug
          THEN \* BUG_ON(!pe)
               /\ fault' = "BUG_sector_not_found"
               /\ pc' = "halt"
               /\ xlate' = xlate
          ELSE /\ xlate' = [last_extent |-> r.last_extent, page |-> r.page,
                            offset |-> r.offset, length |-> r.length]
               /\ UNCHANGED <<pc, fault>>
    /\ UNCHANGED <<totalram, st, rb_root, tsm, ab, pg, live, owner, bad, last, data>>

(* ------------------------------------------------------------------ *)
(* sata_target_map_sg / sata_target_unmap_sg                            *)
(* ------------------------------------------------------------------ *)
\* the for_each_sg loop from entry i on: the list, the entries filled, the
\* sectors not placed, and whether sector_to_page hit its BUG_ON
RECURSIVE fill_sg(_, _, _, _, _, _, _, _)
fill_sg(root, sgl, i, max_segments, last_extent, sector, nr_sectors, nents) ==
    IF i > max_segments \/ nr_sectors = 0
    THEN [bug |-> FALSE, sgl |-> sgl, nents |-> nents, nr_sectors |-> nr_sectors]
    ELSE LET sp == sector_to_page(root, last_extent, sector) IN
         IF sp.bug
         THEN [bug |-> TRUE, sgl |-> sgl, nents |-> nents, nr_sectors |-> nr_sectors]
         ELSE LET len == IF sp.length > nr_sectors * 512
                         THEN (nr_sectors * 512) % U16 ELSE sp.length
                  set == [sgl EXCEPT ![i] = [page |-> sp.page, offset |-> sp.offset,
                                             length |-> len]]
              IN fill_sg(root, set, i + 1, max_segments, sp.last_extent,
                         sector + len \div 512, nr_sectors - len \div 512, nents + 1)

Call(op, tag, sector, nr, ddir, ret, short, dma) ==
    [op |-> op, tag |-> tag, sector |-> sector, nr |-> nr, ddir |-> ddir,
     ret |-> ret, short |-> short, dma |-> dma]

\* the slot with the direction stored before dma_map_sg's result is looked at
map_sg_slot_early(slot, f, ddir, mapped) ==
    [slot EXCEPT !.sgl = f.sgl, !.nents = IF f.nents = 0 THEN 0 ELSE mapped,
                 !.dma_dir = ddir]

\* the slot after the tail of sata_target_map_sg: nents is zeroed, a
\* non-empty list goes to dma_map_sg (which returns `mapped`), and the
\* direction is stored unless that returned 0
map_sg_slot(slot, f, ddir, mapped) ==
    IF f.nents = 0
    THEN [slot EXCEPT !.sgl = f.sgl, !.nents = 0, !.dma_dir = ddir]
    ELSE IF mapped = 0
    THEN [slot EXCEPT !.sgl = f.sgl, !.nents = 0]
    ELSE [slot EXCEPT !.sgl = f.sgl, !.nents = mapped, !.dma_dir = ddir]

\* its return value: -EAGAIN when dma_map_sg returned 0, else the number of
\* entries filled (sectors left over after the loop are only logged)
map_sg_ret(f, mapped) ==
    IF f.nents # 0 /\ mapped = 0 THEN -EAGAIN ELSE f.nents

\* mapped: what dma_map_sg returns when it is called (0: failure)
sata_target_map_sg(sector, nr_sectors, tag, ddir, mapped) ==
    /\ pc = "ready"
    /\ IF tag >= st.depth
       THEN \* BUG_ON(tag >= st->depth)
            /\ mapped = 0
            /\ fault' = "BUG_tag_out_of_range"
            /\ pc' = "halt"
            /\ last' = Call("map_sg", tag, sector, nr_sectors, ddir, 0, FALSE, "none")
            /\ UNCHANGED <<tsm, live>>
       ELSE LET f == fill_sg(rb_root, tsm[tag].sgl, 1, st.max_segments,
                             NULL, sector, nr_sectors, 0)
            IN IF f.bug
               THEN \* BUG_ON(!pe) in sector_to_page
                    /\ mapped = 0
                    /\ fault' = "BUG_sector_not_found"
                    /\ pc' = "halt"
                    /\ tsm' = [tsm EXCEPT ![tag].sgl = f.sgl]
                    /\ last' = Call("map_sg", tag, sector, nr_sectors, ddir, 0,
                                    FALSE, "none")
                    /\ live' = live
               ELSE /\ mapped \in 0..f.nents
                    /\ tsm' = [tsm EXCEPT ![tag] = map_sg_slot(tsm[tag], f, ddir, mapped)]
                    /\ last' = Call("map_sg", tag, sector, nr_sectors, ddir,
                                    map_sg_ret(f, mapped), f.nr_sectors # 0,
                                    IF f.nents # 0 THEN "map" ELSE "none")
                    /\ live' = IF map_sg_ret(f, mapped) >= 0 THEN live \cup {tag}
                               ELSE live
                    /\ UNCHANGED <<pc, fault>>
    /\ UNCHANGED <<totalram, st, rb_root, ab, pg, owner, bad, data, xlate>>

\* the slot left as it was
unmap_sg_slot_keep(slot) == slot

\* tsm->dma_dir = -1
unmap_sg_slot(slot) == [slot EXCEPT !.dma_dir = DMA_UNSET]

\* an unmap that also takes the first extent out of the index
sata_target_unmap_sg_erase(tag, slot) ==
    /\ pc = "ready"
    /\ tag < st.depth
    /\ slot = "in"
    /\ tsm[tag].dma_dir # DMA_UNSET
    /\ tsm' = [tsm EXCEPT ![tag] = unmap_sg_slot(tsm[tag])]
    /\ live' = live \ {tag}
    /\ last' = Call("unmap_sg", tag, 0, 0, 0, 0, FALSE, "unmap")
    /\ rb_root' = IF rb_first(rb_root) = NULL THEN rb_root
                  ELSE rb_erase(rb_root, rb_first(rb_root))
    /\ UNCHANGED <<pc, fault>>
    /\ UNCHANGED <<totalram, st, ab, pg, owner, bad, data, xlate>>

\* an unmap that resets the direction of every slot of the array
sata_target_unmap_sg_all(tag, slot) ==
    /\ pc = "ready"
    /\ tag < st.depth
    /\ slot = "in"
    /\ tsm[tag].dma_dir # DMA_UNSET
    /\ tsm' = [u \in DOMAIN tsm |-> unmap_sg_slot(tsm[u])]
    /\ live' = live \ {tag}
    /\ last' = Call("unmap_sg", tag, 0, 0, 0, 0, FALSE, "unmap")
    /\ UNCHANGED <<pc, fault>>
    /\ UNCHANGED <<totalram, st, rb_root, ab, pg, owner, bad, data, xlate>>

\* slot: what the read of st->tsm[tag].dma_dir finds when tag is outside
\* the array ("unset" or anything else); inside the array it is the slot
sata_target_unmap_sg(tag, slot) ==
    /\ pc = "ready"
    /\ IF tag >= st.depth
       THEN \* no bounds check: the slot is read outside the array
            /\ slot \in {"unset", "other"}
            /\ fault' = IF slot = "unset" THEN "BUG_unmap_unset"
                        ELSE "slot_out_of_bounds"
            /\ pc' = "halt"
            /\ last' = Call("unmap_sg", tag, 0, 0, 0, 0, FALSE,
                            IF slot = "unset" THEN "none" ELSE "unmap")
            /\ UNCHANGED <<tsm, live>>
       ELSE /\ slot = "in"
            /\ IF tsm[tag].dma_dir = DMA_UNSET
               THEN \* BUG_ON(tsm->dma_dir == -1)
                    /\ fault' = "BUG_unmap_unset"
                    /\ pc' = "halt"
                    /\ last' = Call("unmap_sg", tag, 0, 0, 0, 0, FALSE, "none")
                    /\ UNCHANGED <<tsm, live>>
               ELSE /\ tsm' = [tsm EXCEPT ![tag] = unmap_sg_slot(tsm[tag])]
                    /\ live' = live \ {tag}
                    /\ last' = Call("unmap_sg", tag, 0, 0, 0, 0, FALSE, "unmap")
                    /\ UNCHANGED <<pc, fault>>
    /\ UNCHANGED <<totalram, st, rb_root, ab, pg, owner, bad, data, xlate>>

(* ------------------------------------------------------------------ *)
(* sata_target_map_identify, sata_target_wcache_set                     *)
(* ------------------------------------------------------------------ *)
\* pad_copy(dst, src, len): the bytes of src, then spaces up to len
pad_copy(src, len) == [i \in 1..len |-> IF i <= Len(src) THEN src[i] ELSE 32]

\* "LINUXSATATARGET", "1.00", "LINUX TARGET DISK" as character codes
SerialText == <<76, 73, 78, 85, 88, 83, 65, 84, 65, 84, 65, 82, 71, 69, 84>>
FirmwareText == <<49, 46, 48, 48>>
ModelText == <<76, 73, 78, 85, 88, 32, 84, 65, 82, 71, 69, 84, 32, 68, 73, 83, 75>>

\* the 16-bit word that the two bytes of a text field at word w leave in
\* the buffer; the field starts at word `first`
text_word(bytes, first, w) ==
    bytes[2 * (w - first) + 1] + 256 * bytes[2 * (w - first) + 2]

\* v >> 16; >> 32 and >> 48 are two and three of these
shr16(v) == v \div U16

\* cpu_to_le16 of a value: its low 16 bits
cpu_to_le16(v) == v % U16

\* the buffer left as it was
ident_memset_skip(p) == p

\* memset(p, 0, ST_DATA_LEN)
ident_memset(p) == [w \in DOMAIN p |-> 0]

\* target_fill_identify: the buffer it leaves for the target fields s.
\* cyls is a u16; (1 << 14) || ... is a logical or, which is 1.
target_fill_identify(p, s) ==
    LET heads == 255
        spt   == 63
        cyls  == (s.sectors \div (heads * spt)) % U16
        z     == ident_memset(p)
    IN [w \in DOMAIN p |->
          CASE w = 1 -> cpu_to_le16(cyls)
            [] w = 3 -> cpu_to_le16(heads)
            [] w = 6 -> cpu_to_le16(spt)
            [] w \in 10..19 -> text_word(pad_copy(SerialText, 20), 10, w)
            [] w \in 23..26 -> text_word(pad_copy(FirmwareText, 8), 23, w)
            [] w \in 27..46 -> text_word(pad_copy(ModelText, 40), 27, w)
            [] w = 49 -> cpu_to_le16(2 ^ 9 + 2 ^ 8)
            [] w = 50 -> cpu_to_le16(2 ^ 14)
            [] w = 53 -> cpu_to_le16(2 ^ 2)
            [] w = 60 -> cpu_to_le16(s.sectors)
            [] w = 61 -> cpu_to_le16(shr16(s.sectors))
            [] w = 75 -> cpu_to_le16(s.depth - 1)
            [] w = 76 -> cpu_to_le16(2 ^ 1 + 2 ^ 2 + 2 ^ 8)
            [] w = 80 -> cpu_to_le16(240)
            [] w = 81 -> cpu_to_le16(22)
            [] w = 82 -> cpu_to_le16(2 ^ 5)
            [] w = 83 -> cpu_to_le16(1)
            [] w = 84 -> cpu_to_le16(2 ^ 14 + 2 ^ 6)
            [] w = 85 -> IF s.wce # 0 THEN cpu_to_le16(2 ^ 5) ELSE z[w]
            [] w = 86 -> cpu_to_le16(2 ^ 13 + 2 ^ 12 + 2 ^ 10)
            [] w = 87 -> cpu_to_le16(2 ^ 14)
            [] w = 88 -> cpu_to_le16(2 ^ 5 + 2 ^ 13)
            [] w = 100 -> cpu_to_le16(s.sectors)
            [] w = 101 -> cpu_to_le16(shr16(s.sectors))
            [] w = 102 -> cpu_to_le16(shr16(shr16(s.sectors)))
            [] w = 103 -> cpu_to_le16(shr16(shr16(shr16(s.sectors))))
            [] OTHER -> z[w]]

\* the identify list mapped towards the device
sata_target_map_identify_todev(mapped) ==
    /\ pc = "ready"
    /\ mapped \in {0, 1}
    /\ data' = target_fill_identify(data, st)
    /\ tsm' = [tsm EXCEPT ![0].sgl[1] = [page |-> DATA_PAGE, offset |-> 0,
                                         length |-> st.data_len],
                          ![0].dma_dir = DMA_TO_DEVICE,
                          ![0].nents = mapped]
    /\ live' = IF mapped > 0 THEN live \cup {0} ELSE live
    /\ last' = Call("map_identify", 0, 0, 0, DMA_TO_DEVICE, mapped, FALSE, "map")
    /\ UNCHANGED <<pc, totalram, st, rb_root, ab, pg, owner, fault, bad, xlate>>

\* mapped: what dma_map_sg returns for the one-entry list
sata_target_map_identify(mapped) ==
    /\ pc = "ready"
    /\ mapped \in {0, 1}
    /\ data' = target_fill_identify(data, st)
    /\ tsm' = [tsm EXCEPT ![0].sgl[1] = [page |-> DATA_PAGE, offset |-> 0,
                                         length |-> st.data_len],
                          ![0].dma_dir = DMA_FROM_DEVICE,
                          ![0].nents = mapped]
    /\ live' = IF mapped > 0 THEN live \cup {0} ELSE live
    /\ last' = Call("map_identify", 0, 0, 0, DMA_FROM_DEVICE, mapped, FALSE, "map")
    /\ UNCHANGED <<pc, totalram, st, rb_root, ab, pg, owner, fault, bad, xlate>>

\* st->wce = !!enable
sata_target_wcache_set(enable) ==
    /\ pc = "ready"
    /\ st' = [st EXCEPT !.wce = IF enable # 0 THEN 1 ELSE 0]
    /\ UNCHANGED <<pc, totalram, rb_root, tsm, ab, pg, live, owner, fault, bad, last, data, xlate>>

\* target_tag_to_sgl: BUG_ON(tag >= st->depth), else the list of slot `tag`
\* is returned and nothing is written
target_tag_to_sgl(tag) ==
    /\ pc = "ready"
    /\ IF tag >= st.depth
       THEN /\ fault' = "BUG_tag_out_of_range"
            /\ pc' = "halt"
       ELSE UNCHANGED <<pc, fault>>
    /\ last' = Call("tag_to_sgl", tag, 0, 0, 0, 0, FALSE, "none")
    /\ UNCHANGED <<totalram, st, rb_root, tsm, ab, pg, live, owner, bad, data, xlate>>

(* ------------------------------------------------------------------ *)
(* Specifications                                                       *)
(* ------------------------------------------------------------------ *)
\* a call of sata_target_init with every outcome of its allocations
InitCall(choices, maxdepth) ==
    \E sectors \in choices, depth \in 1..maxdepth, segments \in 1..MaxSegments,
       got_st \in BOOLEAN, got_tsm \in BOOLEAN, got_data \in BOOLEAN,
       nsgt \in 0..maxdepth :
         /\ nsgt <= depth
         /\ sata_target_init(sectors, depth, segments, got_st, got_tsm, got_data, nsgt)

AllocStep ==
    \E got \in -1..START_ORDER, got_pe \in BOOLEAN : alloc_backing_step(got, got_pe)

\* Construction and teardown, on both machines, for every sector count of
\* InitSectors.
NextLife ==
    \/ InitCall(InitSectors(totalram), MaxLifeDepth)
    \/ AllocStep
    \/ alloc_backing_done
    \/ sata_target_destroy
    \/ prune_pages
    \/ destroy_finish

SpecLife == Init /\ [][NextLife]_vars

\* The backing allocation with every pattern of alloc_pages failures, for
\* requests of 1 to 3 pages and of one page less than, exactly, and one
\* page more than a block of the starting order, on a machine with room
\* for them; then teardown.
AllocPages == {1, 2, 3, 2 ^ START_ORDER - 1, 2 ^ START_ORDER, 2 ^ START_ORDER + 1}
AllocSectors == {p * PAGE_SIZE : p \in AllocPages}
AllocRam == (reserve_pages + 2 ^ START_ORDER + 1) * PAGE_SIZE

InitAlloc ==
    /\ pc = "start"
    /\ totalram = AllocRam
    /\ st = NoTarget
    /\ rb_root = RB_ROOT
    /\ tsm = <<>>
    /\ ab = NoLocals
    /\ pg = [next |-> 1, blocks |-> {}, reserved |-> {}]
    /\ live = {}
    /\ owner = "none"
    /\ fault = "none"
    /\ bad = {}
    /\ last = NoCall
    /\ data = NoData
    /\ xlate = NoSectorPage

AllocInit ==
    \E sectors \in AllocSectors :
        sata_target_init(sectors, 1, 1, TRUE, TRUE, TRUE, 1)

NextAlloc ==
    \/ AllocInit
    \/ AllocStep
    \/ alloc_backing_done
    \/ sata_target_destroy
    \/ prune_pages
    \/ destroy_finish

SpecAlloc == InitAlloc /\ [][NextAlloc]_vars

\* Commands on a target of up to MaxIoPages requested pages, built on the
\* large machine.  Tags run to st.depth: the last one is out of range.
IoSectors == {p * PAGE_SIZE : p \in 0..MaxIoPages}

InitIo == Init /\ totalram = LargeRam

MapSg ==
    \E sector \in MapSectors, nr \in 0..MaxNrSectors, tag \in 0..MaxDepth,
       ddir \in MapDirs, mapped \in 0..MaxSegments :
         /\ tag <= st.depth
         /\ sata_target_map_sg(sector, nr, tag, ddir, mapped)

UnmapSg ==
    \E tag \in 0..MaxDepth, slot \in {"in", "unset", "other"} :
         /\ tag <= st.depth
         /\ sata_target_unmap_sg(tag, slot)

MapIdentify == \E mapped \in {0, 1} : sata_target_map_identify(mapped)

\* One command slot here; targets with several slots are SpecTags' subject.
Next ==
    \/ InitCall(IoSectors, 1)
    \/ AllocStep
    \/ alloc_backing_done
    \/ MapSg
    \/ UnmapSg
    \/ MapIdentify
    \/ prune_pages
    \/ destroy_finish

Spec == InitIo /\ [][Next]_vars

\* Sector streams: any sequence of sectors, in any order, translated with
\* one translator state on a constructed target.  The last sector of
\* XlateSectors lies behind the largest target.
XlateSectors == 0..(MaxIoPages * PAGE_SECTORS)

Translate == \E sector \in XlateSectors : sector_to_page_call(sector)

NextXlate ==
    \/ InitCall(IoSectors, MaxDepth)
    \/ AllocStep
    \/ alloc_backing_done
    \/ Translate
    \/ prune_pages
    \/ destroy_finish

SpecXlate == InitIo /\ [][NextXlate]_vars

IdentUnmap == sata_target_unmap_sg(0, "in")

\* Map and unmap on the two tags of one target with two backing pages and
\* two entries per list.  Ranges start at the first and at the last sector
\* of the first page and at the first sector of the second.
TagsSectors == {2 * PAGE_SIZE}
TagsDepths == {2}
TagsSegments == {2}
TagsMapSectors == {0, PAGE_SECTORS - 1, PAGE_SECTORS}
TagsNrSectors == {1, 2}

TagsInit ==
    \E sectors \in TagsSectors, depth \in TagsDepths, segments \in TagsSegments :
        sata_target_init(sectors, depth, segments, TRUE, TRUE, TRUE, depth)

TagsMapSg ==
    \E sector \in TagsMapSectors, nr \in TagsNrSectors, tag \in 0..(st.depth - 1),
       ddir \in MapDirs, mapped \in 0..st.max_segments :
         sata_target_map_sg(sector, nr, tag, ddir, mapped)

TagsUnmapSg == \E tag \in 0..(st.depth - 1) : sata_target_unmap_sg(tag, "in")

WcacheSet == \E enable \in {0, 1, 2} : sata_target_wcache_set(enable)

NextTags ==
    \/ TagsInit
    \/ AllocStep
    \/ alloc_backing_done
    \/ TagsMapSg
    \/ TagsUnmapSg
    \/ prune_pages
    \/ destroy_finish

SpecTags == InitIo /\ [][NextTags]_vars

\* Every exported operation on a constructed one-tag target: map, unmap,
\* the identify mapping, the write-cache switch and destroy.
CmdInit ==
    \E sectors \in IoSectors, segments \in 1..MaxSegments :
        sata_target_init(sectors, 1, segments, TRUE, TRUE, TRUE, 1)

CmdMapSg ==
    \E sector \in MapSectors, nr \in TagsNrSectors, ddir \in MapDirs,
       mapped \in 0..MaxSegments :
         sata_target_map_sg(sector, nr, 0, ddir, mapped)

NextCmd ==
    \/ CmdInit
    \/ AllocStep
    \/ alloc_backing_done
    \/ CmdMapSg
    \/ IdentUnmap
    \/ MapIdentify
    \/ WcacheSet
    \/ sata_target_destroy
    \/ prune_pages
    \/ destroy_finish

SpecCmd == InitIo /\ [][NextCmd]_vars

\* Tags in and out of range: targets of one and two slots, every per-tag
\* operation called with tags from 0 to two past the largest array.  An
\* unmap with a tag past the array reads whatever lies behind it: -1
\* ("unset") or anything else ("other").
BoundsDepths == {1, 2}
BoundsTags == 0..3

BoundsInit ==
    \E sectors \in IoSectors, depth \in BoundsDepths :
        sata_target_init(sectors, depth, 1, TRUE, TRUE, TRUE, depth)

BoundsMapSg ==
    \E sector \in MapSectors, tag \in BoundsTags, ddir \in MapDirs, mapped \in {0, 1} :
        sata_target_map_sg(sector, 1, tag, ddir, mapped)

BoundsUnmapSg ==
    \E tag \in BoundsTags, slot \in {"in", "unset", "other"} :
        sata_target_unmap_sg(tag, slot)

TagToSgl == \E tag \in BoundsTags : target_tag_to_sgl(tag)

NextBounds ==
    \/ BoundsInit
    \/ AllocStep
    \/ alloc_backing_done
    \/ BoundsMapSg
    \/ BoundsUnmapSg
    \/ TagToSgl
    \/ prune_pages
    \/ destroy_finish

SpecBounds == InitIo /\ [][NextBounds]_vars

\* Identify generation as a function of the target's fields.  The initial
\* states are constructed targets reduced to what the identify path reads
\* (st->sectors, st->depth, st->wce, st->data, slot 0): the sector counts
\* run from 0 to the first one whose cylinder count needs 17 bits, with
\* the last one that fits 28 bits and the first that does not, and the
\* backing of targets this large (one extent per page once the allocator
\* is down to order 0) is not built.
IdentSectors ==
    {0, 255 * 63 - 1, 255 * 63, 1000000, 2 ^ 28 - 1, 2 ^ 28,
     U16 * 255 * 63 - 1, U16 * 255 * 63}
IdentDepths == {1, 32}

\* a machine on which size_ok accepts every sector count of IdentSectors
IdentRam == (reserve_pages + init_nr_pages(U16 * 255 * 63)) * PAGE_SIZE

InitIdent ==
    /\ pc = "ready"
    /\ totalram = IdentRam
    /\ \E sectors \in IdentSectors, depth \in IdentDepths :
          /\ st = [alloc |-> TRUE, sectors |-> sectors, depth |-> depth,
                   max_segments |-> 1, wce |-> 1, tsm |-> TRUE, data |-> TRUE,
                   data_len |-> ST_DATA_LEN]
          /\ tsm = FreshSlots(depth, 1, depth)
          /\ ab = [NoLocals EXCEPT !.sectors = sectors,
                                   !.nr_pages = init_nr_pages(sectors)]
    /\ rb_root = RB_ROOT
    /\ pg = [next |-> 1, blocks |-> {}, reserved |-> {}]
    /\ live = {}
    /\ owner = "none"
    /\ fault = "none"
    /\ bad = {}
    /\ last = NoCall
    /\ data = NoData
    /\ xlate = NoSectorPage

NextIdent ==
    \/ MapIdentify
    \/ WcacheSet
    \/ IdentUnmap

SpecIdent == InitIdent /\ [][NextIdent]_vars

(* ------------------------------------------------------------------ *)
(* Properties                                                           *)
(* ------------------------------------------------------------------ *)
Nodes == DOMAIN rb_root.nodes

\* the index holds an extent whose range contains sector s
Covered(s) ==
    LET id == pe_rb_find(rb_root, s)
    IN id # NULL /\ sector_in_extent(rb_root.nodes[id], s)

\* C1: once sata_target_init has returned a target, pe_rb_find succeeds for
\* every sector in [0, st.sectors) and returns an extent containing it.
C1_Coverage ==
    pc = "ready" => \A s \in 0..(st.sectors - 1) : Covered(s)

\* C2: in every state (during allocation, after construction, during
\* teardown) any two distinct extents of the index have disjoint ranges.
C2_Disjoint ==
    \A a, b \in Nodes :
        a # b =>
            \/ rb_root.nodes[a].sector + rb_root.nodes[a].sectors <= rb_root.nodes[b].sector
            \/ rb_root.nodes[b].sector + rb_root.nodes[b].sectors <= rb_root.nodes[a].sector

\* two extents are in the index while the allocation is still adding more
C2_Witness == pc = "alloc" /\ Cardinality(Nodes) >= 2 /\ ab.left > 0

\* a map on tag t that returns without an error
MapSucceedsOn(t) ==
    \E sector \in MapSectors, nr \in 1..MaxNrSectors, ddir \in MapDirs,
       mapped \in 1..MaxSegments :
         /\ sata_target_map_sg(sector, nr, t, ddir, mapped)
         /\ last'.ret > 0
         /\ fault' = "none"

\* C3: a successful map leaves the tag with the direction of the call (not
\* the unset value -1); the unmap that follows it raises no fault and
\* leaves the tag at -1; and from there the tag can be mapped again
\* (whenever the target backs the sector asked for).
C3_RoundTrip ==
    /\ [][ /\ (MapSg /\ last'.tag < st.depth /\ last'.ret >= 0 /\ fault' = "none")
                => /\ tsm'[last'.tag].dma_dir = last'.ddir
                   /\ tsm'[last'.tag].dma_dir # DMA_UNSET
                   /\ last'.tag \in live'
           /\ (pc = "ready" /\ last.op = "map_sg" /\ last.tag < st.depth
                 /\ last.ret >= 0 /\ sata_target_unmap_sg(last.tag, "in"))
                => /\ fault' = "none"
                   /\ pc' = "ready"
                   /\ tsm'[last.tag].dma_dir = DMA_UNSET
                   /\ last.tag \notin live'
         ]_vars
    /\ [](\A s \in MapSectors :
            (pc = "ready" /\ last.op = "unmap_sg" /\ Covered(s))
                => ENABLED MapSucceedsOn(last.tag))

\* a tag has been mapped and unmapped again
C3_Witness ==
    /\ pc = "ready"
    /\ last.op = "unmap_sg"
    /\ tsm[last.tag].dma_dir = DMA_UNSET
    /\ tsm[last.tag].nents > 0

\* C4: a map on a tag that already holds a mapping is a fatal misuse and
\* leaves the slot as it was.
C4_NoMapWhileMapped ==
    [][ (MapSg /\ last'.op = "map_sg" /\ last'.tag \in live)
            => (fault' # "none" /\ tsm'[last'.tag] = tsm[last'.tag]) ]_vars

\* C5: an unmap on a tag of the array that holds no mapping raises the
\* unmap fault and does not call dma_unmap_sg.
C5_UnmapFaults ==
    [][ (UnmapSg /\ last'.op = "unmap_sg" /\ last'.tag < st.depth
            /\ last'.tag \notin live)
            => (fault' = "BUG_unmap_unset" /\ last'.dma = "none") ]_vars

\* C6: a map that cannot place the whole request in max_segments entries
\* fails, hands nothing to dma_map_sg and leaves the tag unmapped.
C6_ShortFails ==
    (last.op = "map_sg" /\ last.short)
        => (last.ret < 0 /\ last.dma = "none" /\ last.tag \notin live)

\* C7: when dma_map_sg returns 0 for a non-empty list, the map returns
\* -EAGAIN and the direction recorded for the tag is what it was before.
C7_DmaFailure ==
    [][ (MapSg /\ last'.op = "map_sg" /\ last'.tag < st.depth
            /\ last'.dma = "map" /\ tsm'[last'.tag].nents = 0)
            => /\ last'.ret = -EAGAIN
               /\ tsm'[last'.tag].dma_dir = tsm[last'.tag].dma_dir
               /\ (last'.tag \in live') = (last'.tag \in live)
               /\ fault' = "none" ]_vars

\* dma_map_sg failed on a tag that had been unmapped before
C7_Witness ==
    /\ pc = "ready"
    /\ last.op = "map_sg"
    /\ last.ret = -EAGAIN
    /\ tsm[last.tag].dma_dir = DMA_UNSET

\* the bytes of the first n entries of a list
RECURSIVE SgBytes(_, _)
SgBytes(sgl, n) == IF n = 0 THEN 0 ELSE SgBytes(sgl, n - 1) + sgl[n].length

\* the first n entries back nr sectors from `sector` on, in order, each
\* inside one page
SgCovers(sgl, n, sector, nr) ==
    /\ SgBytes(sgl, n) = nr * 512
    /\ \A i \in 1..n :
         LET sp == sector_to_page(rb_root, NULL, sector + SgBytes(sgl, i - 1) \div 512)
         IN /\ ~sp.bug
            /\ sgl[i].page = sp.page
            /\ sgl[i].offset = sp.offset
            /\ sgl[i].offset + sgl[i].length <= PAGE_SIZE

\* C8: a map of nr >= 1 sectors that succeeds returns between 1 and
\* max_segments entries, which cover exactly the request.
C8_MapCovers ==
    (pc = "ready" /\ last.op = "map_sg" /\ last.nr >= 1 /\ last.ret >= 0)
        => /\ 1 <= last.ret
           /\ last.ret <= st.max_segments
           /\ SgCovers(tsm[last.tag].sgl, last.ret, last.sector, last.nr)

\* pages a sector count needs: ceil(sectors / PAGE_SECTORS)
PagesFor(sectors) == (sectors + PAGE_SECTORS - 1) \div PAGE_SECTORS

\* the request of the last sata_target_init needs more pages than the
\* machine has above the reserve (si.totalram counts pages)
Infeasible == PagesFor(ab.sectors) > totalram - reserve_pages

\* no target structure, slot array, sg table, identify buffer, extent or
\* backing page is held
NothingHeld ==
    /\ st = NoTarget
    /\ tsm = <<>>
    /\ Nodes = {}
    /\ pg.blocks = {}
    /\ pg.reserved = {}

C10_PartialTeardown ==
    (owner = "init" /\ pc \in {"failed", "halt"})
        => (pc = "failed" /\ fault = "none" /\ bad = {} /\ NothingHeld)

\* C11: a map or an unmap on tag t, whether it succeeds, fails or faults,
\* leaves the slot of every other tag u < depth (its list, its entry count,
\* its direction) and u's mapped state as they were.
C11_CrossTag ==
    [][ (pc = "ready" /\ last'.op \in {"map_sg", "unmap_sg"} /\ last'.tag < st.depth)
            => \A u \in 0..(st.depth - 1) :
                  u # last'.tag
                    => (tsm'[u] = tsm[u] /\ ((u \in live') <=> (u \in live))) ]_vars

\* a map on tag 1 failed in dma_map_sg while tag 0 held a mapping
C11_Witness ==
    /\ pc = "ready"
    /\ last.op = "map_sg" /\ last.tag = 1 /\ last.ret = -EAGAIN
    /\ 0 \in live
    /\ tsm[0].dma_dir = DMA_TO_DEVICE /\ tsm[0].nents > 0

\* tag t holds a mapping whose list is the one a map of nr sectors from
\* `sector` on builds
Listed(t, sector, nr) ==
    /\ t \in live
    /\ tsm[t].nents > 0
    /\ SgCovers(tsm[t].sgl, tsm[t].nents, sector, nr)

\* the pages in the list of tag t
SgPages(t) == {tsm[t].sgl[i].page : i \in 1..tsm[t].nents}

\* the page-sized groups of sectors that a range touches
PageGroups(sector, nr) ==
    (sector \div PAGE_SECTORS)..((sector + nr - 1) \div PAGE_SECTORS)

\* C12: two tags that hold mappings of non-overlapping sector ranges have
\* no page in common in their lists.
C12_RangesDisjoint ==
    \A t, u \in live : \A s1, s2 \in TagsMapSectors : \A n1, n2 \in TagsNrSectors :
        (t # u /\ Listed(t, s1, n1) /\ Listed(u, s2, n2)
             /\ (s1 + n1 <= s2 \/ s2 + n2 <= s1))
          => SgPages(t) \cap SgPages(u) = {}

\* C12 as amended: two tags that hold mappings of sector ranges which
\* touch no common page-sized group of sectors have no page in common in
\* their lists.
C12_PageRangesDisjoint ==
    \A t, u \in live : \A s1, s2 \in TagsMapSectors : \A n1, n2 \in TagsNrSectors :
        (t # u /\ Listed(t, s1, n1) /\ Listed(u, s2, n2)
             /\ PageGroups(s1, n1) \cap PageGroups(s2, n2) = {})
          => SgPages(t) \cap SgPages(u) = {}

\* one tag maps the first two sectors of the first page while another maps
\* the first two sectors of the second page
C12_Witness ==
    \E t, u \in live :
        t # u /\ Listed(t, 0, 2) /\ Listed(u, PAGE_SECTORS, 2)

\* C13: the identify block generated for a target has heads word (3) = 255,
\* sectors-per-track word (6) = 63, cylinders word (1) = sectors div
\* (255 * 63) and queue-depth word (75) = depth - 1; 1,000,000 sectors and
\* depth 32 give 62 cylinders and queue depth 31.
C13_Geometry ==
    last.op = "map_identify"
        => /\ data[3] = 255
           /\ data[6] = 63
           /\ data[1] = st.sectors \div (255 * 63)
           /\ data[75] = st.depth - 1
           /\ (st.sectors = 1000000 /\ st.depth = 32)
                 => (data[1] = 62 /\ data[75] = 31)

\* bit 5 of a word
Bit5(w) == (w \div 2 ^ 5) % 2 = 1

\* C14: every identify block is generated with bit 5 of word 85 set exactly
\* when the write-cache flag is on at that moment; the flag is on when
\* construction returns the target, a set_write_cache call leaves it at
\* the truth value of its argument, and no other call changes it.
C14_WriteCache ==
    [][ /\ MapIdentify => (Bit5(data'[85]) <=> st.wce = 1)
        /\ alloc_backing_done => st'.wce = 1
        /\ \A enable \in {0, 1, 2} :
              sata_target_wcache_set(enable) => (st'.wce = IF enable = 0 THEN 0 ELSE 1)
        /\ (pc = "ready" /\ pc' = "ready" /\ ~WcacheSet) => st'.wce = st.wce
      ]_vars

\* an identify block generated and mapped after the write cache had been
\* switched off
C14_Witness ==
    /\ pc = "ready"
    /\ last.op = "map_identify"
    /\ st.wce = 0
    /\ ~Bit5(data[85])
    /\ Bit5(data[82])
    /\ tsm[0].nents = 1

\* C15: map_identify reports tag 0, puts the whole ST_DATA_LEN-byte identify
\* buffer into the first entry of tag 0's list and no other entry, maps it
\* from the device, and returns the count dma_map_sg gave for that entry.
C15_MapIdentify ==
    [][ MapIdentify
          => /\ last'.op = "map_identify"
             /\ last'.tag = 0
             /\ tsm'[0].sgl[1] = [page |-> DATA_PAGE, offset |-> 0, length |-> ST_DATA_LEN]
             /\ \A k \in 2..st.max_segments : tsm'[0].sgl[k] = tsm[0].sgl[k]
             /\ tsm'[0].dma_dir = DMA_FROM_DEVICE
             /\ last'.ddir = DMA_FROM_DEVICE
             /\ last'.dma = "map"
             /\ last'.ret = tsm'[0].nents
             /\ last'.ret \in {0, 1}
             /\ \A mapped \in {0, 1} :
                   sata_target_map_identify(mapped) => last'.ret = mapped
      ]_vars

\* the identify buffer is mapped on tag 0 of a target with a longer list,
\* whose later entries an earlier command had filled
C15_Witness ==
    /\ pc = "ready"
    /\ last.op = "map_identify"
    /\ last.ret = 1
    /\ st.max_segments >= 2
    /\ tsm[0].sgl[1].page = DATA_PAGE
    /\ tsm[0].sgl[2].length > 0

\* the sectors spanned by the first k extents inserted (node ids count the
\* insertions)
RECURSIVE SpanUpTo(_)
SpanUpTo(k) == IF k = 0 THEN 0 ELSE SpanUpTo(k - 1) + rb_root.nodes[k].sectors

\* C16: while the backing is allocated, and once it is complete, every
\* extent starts at the sum of the spans of the extents inserted before it
\* (the first at sector 0), and no insertion hits the overlap BUG().
C16_RunningOffset ==
    /\ fault # "BUG_extent_overlap"
    /\ pc \in {"alloc", "ready"}
          => \A n \in Nodes : rb_root.nodes[n].sector = SpanUpTo(n - 1)

ExtentPages ==
    UNION {PagesOf(pe.pages, pe.sectors \div PAGE_SECTORS) : pe \in Extents}

\* C18: when the caller destroys a target, the pages still marked reserved
\* are at every point those of the extents not yet visited, every block is
\* handed to __free_pages with the order alloc_pages gave it out with, and
\* at the end no extent, no block and no reserved page is left.
C18_TeardownPages ==
    owner = "caller"
        => /\ "free_pages_wrong_order" \notin bad
           /\ pc = "destroy" => pg.reserved = ExtentPages
           /\ pc = "destroyed"
                 => (Nodes = {} /\ pg.blocks = {} /\ pg.reserved = {})

\* C19: whatever sectors were translated before with the same translator
\* state, sector_to_page gives for a sector the extent, page, byte offset
\* and run length that it gives with no cached extent, and hits its
\* BUG_ON in the same cases.
C19_CacheTransparent ==
    [][ \A s \in XlateSectors :
          sector_to_page_call(s)
            => LET r == sector_to_page(rb_root, NULL, s)
               IN /\ r.bug <=> fault' = "BUG_sector_not_found"
                  /\ ~r.bug => /\ xlate'.last_extent = r.last_extent
                               /\ xlate'.page = r.page
                               /\ xlate'.offset = r.offset
                               /\ xlate'.length = r.length
      ]_vars

\* a stream on a target of two extents has last been translated inside
\* the first page, at a sector that is not the first of its extent
C19_Witness ==
    /\ pc = "ready"
    /\ Cardinality(Nodes) >= 2
    /\ xlate.last_extent = 1
    /\ xlate.offset > 0

\* C20: on a constructed target every call except destroy (map, unmap,
\* map_identify with its identify generation, set_write_cache), also one
\* that fails or faults, leaves the extent index and the backing blocks
\* exactly as they were.
C20_IndexImmutable ==
    [][ (pc = "ready" /\ pc' # "destroy")
            => (rb_root' = rb_root /\ pg' = pg) ]_vars

\* a target with backing has been mapped, unmapped, identified and had its
\* write cache switched off
C20_Witness ==
    /\ pc = "ready"
    /\ Nodes # {}
    /\ last.op = "unmap_sg"
    /\ tsm[0].sgl[1].page > 0
    /\ Bit5(data[82])
    /\ st.wce = 0


\* four 16-bit words, least significant first, read as one number
Words4(w0, w1, w2, w3) == ((w3 * U16 + w2) * U16 + w1) * U16 + w0

\* C21: words 100..103 of the identify block, read as four 16-bit words
\* least significant first, give exactly the target's sector count; words
\* 60..61 give the sector count whenever it is below 2^28, and never a
\* value of 2^28 or more.
C21_SectorCount ==
    last.op = "map_identify"
        => /\ Words4(data[100], data[101], data[102], data[103]) = st.sectors
           /\ st.sectors < 2 ^ 28
                 => Words4(data[60], data[61], 0, 0) = st.sectors
           /\ Words4(data[60], data[61], 0, 0) < 2 ^ 28

\* bit k of a word
BitSet(w, k) == (w \div 2 ^ k) % 2 = 1

\* C22: the 'supported' feature word (83) of every generated identify
\* block has bits 10 (48-bit addressing), 12 (flush cache), 13 (flush cache
\* ext) and 14 set, and the 'enabled' word (86) has bits 10, 12 and 13 set.
C22_FeatureBits ==
    last.op = "map_identify"
        => /\ \A k \in {10, 12, 13, 14} : BitSet(data[83], k)
           /\ \A k \in {10, 12, 13} : BitSet(data[86], k)

\* C23: every per-tag operation (map, unmap, target_tag_to_sgl) called with
\* tag >= depth raises the tag-range fault and leaves every slot as it was:
\* it stops before it reads or writes a slot, so no slot outside the array
\* is accessed.
C23_TagBounds ==
    [][ (pc = "ready" /\ last'.op \in {"map_sg", "unmap_sg", "tag_to_sgl"}
            /\ last'.tag >= st.depth)
            => (fault' = "BUG_tag_out_of_range" /\ pc' = "halt" /\ tsm' = tsm) ]_vars

\* C24: a map_identify for which dma_map_sg maps nothing returns zero and
\* leaves tag 0 unmapped (direction -1) if it was, so that an unmap of tag
\* 0 that follows raises the unmap fault; tag 0 goes from unmapped to
\* mapped only in a map_identify that succeeds.
C24_FailedIdentify ==
    [][ /\ (sata_target_map_identify(0) /\ tsm[0].dma_dir = DMA_UNSET)
              => (last'.ret = 0 /\ tsm'[0].dma_dir = DMA_UNSET)
        /\ (MapIdentify /\ tsm[0].dma_dir = DMA_UNSET /\ tsm'[0].dma_dir # DMA_UNSET)
              => last'.ret > 0
        /\ (pc = "ready" /\ last.op = "map_identify" /\ last.ret = 0
              /\ 0 \notin live /\ IdentUnmap)
              => fault' = "BUG_unmap_unset"
      ]_vars
====
